---------------------------- MODULE Spec2Model ----------------------------
(***************************************************************************)
(* Model of library/ft5406.py: the decoder of the Linux multitouch slot    *)
(* protocol.  Touchscreen.poll reads fixed-size input records, mutates the *)
(* ten Touch objects and the single-touch position, and on an EV_SYN       *)
(* record runs Touch.handle_events on every touch.                         *)
(***************************************************************************)
EXTENDS Integers, Sequences, FiniteSets, TLC

(* ---- constants of the source ---- *)
EV_SYN == 0
EV_ABS == 3
ABS_X == 0
ABS_Y == 1
ABS_MT_SLOT == 47
ABS_MT_POSITION_X == 53
ABS_MT_POSITION_Y == 54
ABS_MT_TRACKING_ID == 57
TS_PRESS == 1
TS_RELEASE == 0
TS_MOVE == 2
\* struct.calcsize('llHHi') with native alignment on a 64-bit build
EVENT_SIZE == 24
\* Touches([Touch(x, 0, 0) for x in range(10)])
NumSlots == 10

(* ---- bounds of the model ---- *)
\* number of reads of the device that a behaviour contains
MaxReads == 4
\* number of input devices the enumeration lists
MaxDevices == 3

Slots == 0 .. (NumSlots - 1)

(* ---- inputs: what a read of the device can deliver ---- *)
\* <<type, code>> of records the decoder has no branch for: a type that is neither
\* EV_SYN nor EV_ABS (EV_KEY = 1), and an EV_ABS code it does not test
\* (ABS_MT_TOUCH_MAJOR = 48)
IgnoredRecords == {<<1, ABS_MT_TRACKING_ID>>, <<EV_ABS, 48>>}
SlotValues == {-11, -1, 0, 2, 10}
IdValues == {-1, 5, 7}
XValues == {100, 150}
YValues == {200}
\* the name files of the enumerated /sys/class/input/event* directories: the
\* touchscreen's name, another device's name, no name file (ENOENT), a name file
\* that cannot be opened for another reason (EACCES)
NameFiles == {"FT5406 memory based driver", "other", "ENOENT", "EACCES"}
\* the length of a truncated record (a read at end of stream has length 0, a whole
\* record EVENT_SIZE)
ShortLen == 8

VARIABLES
    touches,      \* self.touches: slot -> Touch
    position,     \* self.position: the single-touch Touch
    touch_slot,   \* self._touch_slot
    pc,           \* "idle": no poll() is executing; "polling": inside poll()'s loop
    outcome,      \* how the latest poll() ended: "none" (not yet), "returned", or the exception raised
    event,        \* what the latest read of the device delivered
    calls,        \* the callbacks invoked by the latest step, in order, with what each observed
    nreads,       \* reads of the device so far
    frame_start,  \* history: self.touches as the latest EV_SYN left it (as constructed, before the first)
    frame_writes, \* history: per slot, the id / x / y writes it received since then, in order
    thread,       \* self._thread: "None" or "Thread"
    running,      \* self._running
    wpc,          \* where the worker thread is: "none" (no thread), "start" (entering _run),
                  \* "while" (at the loop test), "poll" (inside self.poll()), "done" (terminated)
    cpc,          \* where the controlling thread is: "idle", or "join" (inside stop(), at join())
    devices,      \* the name files glob.glob("/sys/class/input/event*") enumerates, in order
    device_path   \* what self._touch_device() produced

vars == <<touches, position, touch_slot, pc, outcome, event, calls, nreads,
          frame_start, frame_writes, thread, running, wpc, cpc, devices, device_path>>
history == <<frame_start, frame_writes>>
control == <<thread, running, wpc, cpc>>
discovery == <<devices, device_path>>

(* ---- class Touch ---- *)
Touch(slot, x, y) ==
    [slot |-> slot, x |-> x, y |-> y, last_x |-> -1, last_y |-> -1,
     id |-> -1, events |-> <<>>,
     on_move |-> FALSE, on_press |-> FALSE, on_release |-> FALSE]

\* `e in self.events`
Pending(e, events) == \E i \in DOMAIN events : events[i] = e

valid(t) == t.id > -1

\* fault: the test `value == -1` is missing, every change of id appends Press
id_setter_press_only(t, value) ==
    [t EXCEPT
        !.events = IF value # t.id /\ ~Pending(TS_PRESS, t.events)
                   THEN Append(t.events, TS_PRESS)
                   ELSE t.events,
        !.id = value]

\* fault: the test `value != self._id` is missing, a write of the same id appends
id_setter_unconditional(t, value) ==
    [t EXCEPT
        !.events = IF value = -1 /\ ~Pending(TS_RELEASE, t.events)
                   THEN Append(t.events, TS_RELEASE)
                   ELSE IF ~Pending(TS_PRESS, t.events)
                        THEN Append(t.events, TS_PRESS)
                        ELSE t.events,
        !.id = value]

\* fault: Press is suppressed by a pending Release as well as by a pending Press
id_setter_press_unless_release(t, value) ==
    [t EXCEPT
        !.events = IF value # t.id
                   THEN IF value = -1 /\ ~Pending(TS_RELEASE, t.events)
                        THEN Append(t.events, TS_RELEASE)
                        ELSE IF ~Pending(TS_PRESS, t.events) /\ ~Pending(TS_RELEASE, t.events)
                             THEN Append(t.events, TS_PRESS)
                             ELSE t.events
                   ELSE t.events,
        !.id = value]

id_setter(t, value) ==
    [t EXCEPT
        !.events = IF value # t.id
                   THEN IF value = -1 /\ ~Pending(TS_RELEASE, t.events)
                        THEN Append(t.events, TS_RELEASE)
                        ELSE IF ~Pending(TS_PRESS, t.events)
                             THEN Append(t.events, TS_PRESS)
                             ELSE t.events
                   ELSE t.events,
        !.id = value]

\* fault: the test `not TS_MOVE in self.events` is missing
x_setter_unguarded(t, value) ==
    [t EXCEPT
        !.events = IF value # t.x THEN Append(t.events, TS_MOVE) ELSE t.events,
        !.last_x = t.x,
        !.x = value]

\* fault: the two assignments are swapped, last_x takes the new value
x_setter_last_after(t, value) ==
    [t EXCEPT
        !.events = IF value # t.x /\ ~Pending(TS_MOVE, t.events)
                   THEN Append(t.events, TS_MOVE)
                   ELSE t.events,
        !.last_x = value,
        !.x = value]

x_setter(t, value) ==
    [t EXCEPT
        !.events = IF value # t.x /\ ~Pending(TS_MOVE, t.events)
                   THEN Append(t.events, TS_MOVE)
                   ELSE t.events,
        !.last_x = t.x,
        !.x = value]

\* fault: the test `value != self._y` is missing, every write appends Move
y_setter_always_move(t, value) ==
    [t EXCEPT
        !.events = IF ~Pending(TS_MOVE, t.events)
                   THEN Append(t.events, TS_MOVE)
                   ELSE t.events,
        !.last_y = t.y,
        !.y = value]

y_setter(t, value) ==
    [t EXCEPT
        !.events = IF value # t.y /\ ~Pending(TS_MOVE, t.events)
                   THEN Append(t.events, TS_MOVE)
                   ELSE t.events,
        !.last_y = t.y,
        !.y = value]

\* what a callback sees: its name and the touch object it is handed
Call(fn, t) ==
    [fn |-> fn, slot |-> t.slot, id |-> t.id, x |-> t.x, y |-> t.y,
     last_x |-> t.last_x, last_y |-> t.last_y]

\* the body of handle_events' loop for one event: three independent ifs
CallsForEvent(t, e) ==
    (IF e = TS_MOVE /\ t.on_move THEN <<Call("on_move", t)>> ELSE <<>>)
    \o (IF e = TS_PRESS /\ t.on_press THEN <<Call("on_press", t)>> ELSE <<>>)
    \o (IF e = TS_RELEASE /\ t.on_release THEN <<Call("on_release", t)>> ELSE <<>>)

\* `for event in self.events`: the callbacks handle_events invokes, in order
RECURSIVE CallsFrom(_, _)
CallsFrom(t, i) ==
    IF i > Len(t.events) THEN <<>>
    ELSE CallsForEvent(t, t.events[i]) \o CallsFrom(t, i + 1)

\* fault: the callbacks are tried kind by kind (Move, Press, Release) instead of
\* event by event
handle_events_calls_by_kind(t) ==
    (IF Pending(TS_MOVE, t.events) /\ t.on_move THEN <<Call("on_move", t)>> ELSE <<>>)
    \o (IF Pending(TS_PRESS, t.events) /\ t.on_press THEN <<Call("on_press", t)>> ELSE <<>>)
    \o (IF Pending(TS_RELEASE, t.events) /\ t.on_release THEN <<Call("on_release", t)>> ELSE <<>>)

handle_events_calls(t) == CallsFrom(t, 1)

\* fault: only the events whose callback was invoked are removed
handle_events_keep_unhandled(t) ==
    [t EXCEPT !.events =
        SelectSeq(t.events, LAMBDA e : ~ \/ (e = TS_MOVE /\ t.on_move)
                                         \/ (e = TS_PRESS /\ t.on_press)
                                         \/ (e = TS_RELEASE /\ t.on_release))]

\* the touch after handle_events: self.events = []
handle_events(t) == [t EXCEPT !.events = <<>>]

(* ---- class Touchscreen ---- *)
\* Python list indexing of self.touches: -len..-1 count from the end, anything
\* else outside 0..len-1 raises IndexError
IndexOk(i) == -NumSlots <= i /\ i < NumSlots
ListIndex(i) == IF i < 0 THEN i + NumSlots ELSE i

NoEvent == [len |-> -1, type |-> -1, code |-> -1, value |-> 0]
Record(type, code, value) == [len |-> EVENT_SIZE, type |-> type, code |-> code, value |-> value]

\* Touchscreen._touch_device: the outcomes
Unresolved == [result |-> "unresolved", index |-> 0]
Path(i) == [result |-> "path", index |-> i]
Raised(exception) == [result |-> exception, index |-> 0]
ReturnedNone == [result |-> "None", index |-> 0]

\* the for loop from the i-th enumerated device on. The `raise RuntimeError` of
\* line 206 is a statement of the loop body, so the body never completes and the
\* loop never goes on to device i + 1; an empty enumeration falls off the end of
\* the function, which returns None.
touch_device_from(devs, i) ==
    IF i > Len(devs) THEN ReturnedNone
    ELSE IF devs[i] = "FT5406 memory based driver" THEN Path(i)
    ELSE IF devs[i] = "EACCES" THEN Raised("IOError")
    ELSE Raised("RuntimeError")

touch_device(devs) == touch_device_from(devs, 1)

\* the fields __init__ assigns
constructed ==
    /\ touches = [s \in Slots |-> Touch(s, 0, 0)]
    /\ position = Touch(0, 0, 0)
    /\ touch_slot = 0
    /\ pc = "idle"
    /\ outcome = "none"
    /\ event = NoEvent
    /\ calls = <<>>
    /\ nreads = 0
    /\ frame_start = touches
    /\ frame_writes = [s \in Slots |-> <<>>]
    /\ thread = "None"
    /\ running = FALSE
    /\ wpc = "none"
    /\ cpc = "idle"

\* a constructed Touchscreen: the touchscreen is the device enumerated first
Init ==
    /\ constructed
    /\ devices = <<"FT5406 memory based driver">>
    /\ device_path = touch_device(devices)

\* poll() is entered (direct call)
poll ==
    /\ pc = "idle"
    /\ thread = "None"
    /\ cpc = "idle"
    /\ nreads < MaxReads
    /\ pc' = "polling"
    /\ outcome' = "none"
    /\ event' = NoEvent
    /\ calls' = <<>>
    /\ UNCHANGED <<touches, position, touch_slot, nreads, history, control, discovery>>

\* the demonstration's registration loop, one attribute at a time:
\* `for touch in ts.touches: touch.on_press = handle_event` (before polling starts)
register(fn) ==
    /\ pc = "idle"
    /\ outcome = "none"
    /\ nreads = 0
    /\ touches' = [s \in Slots |->
                     CASE fn = "on_move" -> [touches[s] EXCEPT !.on_move = TRUE]
                       [] fn = "on_press" -> [touches[s] EXCEPT !.on_press = TRUE]
                       [] fn = "on_release" -> [touches[s] EXCEPT !.on_release = TRUE]]
    /\ touches' # touches
    /\ frame_start' = touches'
    /\ UNCHANGED <<position, touch_slot, pc, outcome, event, calls, nreads, frame_writes,
                   control, discovery>>

\* a consumer that also wants the single-touch position assigns
\* `ts.position.on_move = handle_event` after the loop over ts.touches
register_position ==
    /\ pc = "idle"
    /\ outcome = "none"
    /\ nreads = 0
    /\ \A s \in Slots : touches[s].on_move /\ touches[s].on_press /\ touches[s].on_release
    /\ ~position.on_move
    /\ position' = [position EXCEPT !.on_move = TRUE]
    /\ UNCHANGED <<touches, touch_slot, pc, outcome, event, calls, nreads, history,
                   control, discovery>>

\* self._current_touch
current_touch == touches[ListIndex(touch_slot)]

\* event = self.read(): one read of EVENT_SIZE bytes inside poll()'s loop
read(ev) ==
    /\ pc = "polling"
    /\ nreads < MaxReads
    /\ nreads' = nreads + 1
    /\ event' = ev
    /\ UNCHANGED <<control, discovery>>

\* back to the top of poll()'s `while True`. The test of line 168 is false whenever
\* self._thread is None, so a direct call goes on to the next read; with a worker
\* thread the test is the worker's next step.
loop_again == pc' = IF thread # "None" THEN "check" ELSE "polling"

\* fault: a short read is padded with zero bytes and decoded, which makes it an
\* EV_SYN record
unpack_zero_padded(n) ==
    /\ read([NoEvent EXCEPT !.len = n])
    /\ touches' = [s \in Slots |-> handle_events(touches[s])]
    /\ calls' = <<>>
    /\ pc' = "idle"
    /\ outcome' = "returned"
    /\ frame_start' = touches'
    /\ frame_writes' = [s \in Slots |-> <<>>]
    /\ UNCHANGED <<position, touch_slot>>

\* struct.unpack on a read that is not EVENT_SIZE bytes long (a truncated record,
\* or the empty read at end of stream) raises struct.error out of poll()
unpack_error(n) ==
    /\ read([NoEvent EXCEPT !.len = n])
    /\ pc' = "idle"
    /\ outcome' = "struct.error"
    /\ calls' = <<>>
    /\ UNCHANGED <<touches, position, touch_slot, history>>

\* `for touch in self.touches: touch.handle_events()`: the callbacks, slot by slot
RECURSIVE sync_calls(_, _)
sync_calls(ts, s) ==
    IF s >= NumSlots THEN <<>>
    ELSE handle_events_calls(ts[s]) \o sync_calls(ts, s + 1)

\* fault: the dispatch also resets the cursor to slot 0
sync_resets_cursor(code) ==
    /\ read(Record(EV_SYN, code, 0))
    /\ calls' = sync_calls(touches, 0)
    /\ touches' = [s \in Slots |-> handle_events(touches[s])]
    /\ touch_slot' = 0
    /\ pc' = "idle"
    /\ outcome' = "returned"
    /\ frame_start' = touches'
    /\ frame_writes' = [s \in Slots |-> <<>>]
    /\ UNCHANGED <<position>>

\* fault: the dispatch handles self.position after the ten touches
sync_with_position(code) ==
    /\ read(Record(EV_SYN, code, 0))
    /\ calls' = sync_calls(touches, 0) \o handle_events_calls(position)
    /\ touches' = [s \in Slots |-> handle_events(touches[s])]
    /\ position' = handle_events(position)
    /\ pc' = "idle"
    /\ outcome' = "returned"
    /\ frame_start' = touches'
    /\ frame_writes' = [s \in Slots |-> <<>>]
    /\ UNCHANGED <<touch_slot>>

\* fault: the dispatch does not return, poll() goes on reading
sync_keeps_polling(code) ==
    /\ read(Record(EV_SYN, code, 0))
    /\ calls' = sync_calls(touches, 0)
    /\ touches' = [s \in Slots |-> handle_events(touches[s])]
    /\ loop_again
    /\ outcome' = outcome
    /\ frame_start' = touches'
    /\ frame_writes' = [s \in Slots |-> <<>>]
    /\ UNCHANGED <<position, touch_slot>>

\* event.type == EV_SYN
sync(code) ==
    /\ read(Record(EV_SYN, code, 0))
    /\ calls' = sync_calls(touches, 0)
    /\ touches' = [s \in Slots |-> handle_events(touches[s])]
    /\ pc' = "idle"
    /\ outcome' = "returned"
    /\ frame_start' = touches'
    /\ frame_writes' = [s \in Slots |-> <<>>]
    /\ UNCHANGED <<position, touch_slot>>

\* event.code == ABS_MT_SLOT
select_slot(value) ==
    /\ read(Record(EV_ABS, ABS_MT_SLOT, value))
    /\ touch_slot' = value
    /\ calls' = <<>>
    /\ loop_again
    /\ UNCHANGED <<touches, position, outcome, history>>

\* self._current_touch raises IndexError out of poll()
index_error ==
    /\ pc' = "idle"
    /\ outcome' = "IndexError"
    /\ calls' = <<>>
    /\ UNCHANGED <<touches, position, touch_slot, history>>

\* fault: the events are handled as soon as the attribute is assigned
set_current_dispatching(t, attr, value) ==
    /\ touches' = [touches EXCEPT ![ListIndex(touch_slot)] = handle_events(t)]
    /\ calls' = handle_events_calls(t)
    /\ frame_writes' = [frame_writes EXCEPT ![ListIndex(touch_slot)] = Append(@, <<attr, value>>)]
    /\ loop_again
    /\ UNCHANGED <<position, touch_slot, outcome, frame_start>>

\* the assignment `self._current_touch.<attr> = event.value`: the current touch
\* becomes t
set_current(t, attr, value) ==
    /\ touches' = [touches EXCEPT ![ListIndex(touch_slot)] = t]
    /\ calls' = <<>>
    /\ frame_writes' = [frame_writes EXCEPT ![ListIndex(touch_slot)] = Append(@, <<attr, value>>)]
    /\ loop_again
    /\ UNCHANGED <<position, touch_slot, outcome, frame_start>>

\* event.code == ABS_MT_TRACKING_ID
tracking_id(value) ==
    /\ read(Record(EV_ABS, ABS_MT_TRACKING_ID, value))
    /\ IF IndexOk(touch_slot) THEN set_current(id_setter(current_touch, value), "id", value)
       ELSE index_error

\* event.code == ABS_MT_POSITION_X
position_x(value) ==
    /\ read(Record(EV_ABS, ABS_MT_POSITION_X, value))
    /\ IF IndexOk(touch_slot) THEN set_current(x_setter(current_touch, value), "x", value)
       ELSE index_error

\* event.code == ABS_MT_POSITION_Y
position_y(value) ==
    /\ read(Record(EV_ABS, ABS_MT_POSITION_Y, value))
    /\ IF IndexOk(touch_slot) THEN set_current(y_setter(current_touch, value), "y", value)
       ELSE index_error

\* fault: ABS_X is assigned to the first touch as well as to the position
abs_x_to_touch(value) ==
    /\ read(Record(EV_ABS, ABS_X, value))
    /\ position' = x_setter(position, value)
    /\ touches' = [touches EXCEPT ![0] = x_setter(@, value)]
    /\ calls' = <<>>
    /\ loop_again
    /\ UNCHANGED <<touch_slot, outcome, history>>

\* event.code == ABS_X
abs_x(value) ==
    /\ read(Record(EV_ABS, ABS_X, value))
    /\ position' = x_setter(position, value)
    /\ calls' = <<>>
    /\ loop_again
    /\ UNCHANGED <<touches, touch_slot, outcome, history>>

\* event.code == ABS_Y
abs_y(value) ==
    /\ read(Record(EV_ABS, ABS_Y, value))
    /\ position' = y_setter(position, value)
    /\ calls' = <<>>
    /\ loop_again
    /\ UNCHANGED <<touches, touch_slot, outcome, history>>

\* a record of another type, or an EV_ABS record with a code no branch tests
ignored(type, code, value) ==
    /\ type # EV_SYN
    /\ type = EV_ABS =>
         code \notin {ABS_MT_SLOT, ABS_MT_TRACKING_ID, ABS_MT_POSITION_X,
                      ABS_MT_POSITION_Y, ABS_X, ABS_Y}
    /\ read(Record(type, code, value))
    /\ calls' = <<>>
    /\ loop_again
    /\ UNCHANGED <<touches, position, touch_slot, outcome, history>>

Next ==
    \/ poll
    \/ \E fn \in {"on_move", "on_press", "on_release"} : register(fn)
    \/ register_position
    \/ \E n \in {0, ShortLen} : unpack_error(n)
    \/ \E code \in {0} : sync(code)
    \/ \E v \in SlotValues : select_slot(v)
    \/ \E v \in IdValues : tracking_id(v)
    \/ \E v \in XValues : position_x(v)
    \/ \E v \in YValues : position_y(v)
    \/ \E v \in XValues : abs_x(v)
    \/ \E v \in YValues : abs_y(v)
    \/ \E r \in IgnoredRecords :
          ignored(r[1], r[2], 5)

Spec == Init /\ [][Next]_vars

(* ---- device discovery ---- *)
RECURSIVE SeqsUpTo(_, _)
SeqsUpTo(S, n) ==
    IF n = 0 THEN {<<>>}
    ELSE LET shorter == SeqsUpTo(S, n - 1)
         IN  shorter \cup {Append(q, x) : q \in shorter, x \in S}

\* __init__ before line 120: any enumeration of input devices
InitDevice ==
    /\ constructed
    /\ devices \in SeqsUpTo(NameFiles, MaxDevices)
    /\ device_path = Unresolved

\* self._touch_device() is called (line 120)
resolve_device ==
    /\ device_path = Unresolved
    /\ device_path' = touch_device(devices)
    /\ UNCHANGED <<touches, position, touch_slot, pc, outcome, event, calls, nreads,
                   history, control, devices>>

SpecDevice == InitDevice /\ [][resolve_device]_vars

(* ---- the worker thread ---- *)
\* run()
run ==
    /\ cpc = "idle"
    /\ pc = "idle"
    /\ thread = "None"
    /\ thread' = "Thread"
    /\ wpc' = "start"
    /\ UNCHANGED <<touches, position, touch_slot, pc, outcome, event, calls, nreads,
                   history, running, cpc, discovery>>

\* stop() up to the join: self._running = False
stop ==
    /\ cpc = "idle"
    /\ thread # "None"
    /\ running' = FALSE
    /\ cpc' = "join"
    /\ UNCHANGED <<touches, position, touch_slot, pc, outcome, event, calls, nreads,
                   history, thread, wpc, discovery>>

\* self._thread.join() returns once the worker has terminated; self._thread = None
join ==
    /\ cpc = "join"
    /\ wpc = "done"
    /\ thread' = "None"
    /\ wpc' = "none"
    /\ cpc' = "idle"
    /\ UNCHANGED <<touches, position, touch_slot, pc, outcome, event, calls, nreads,
                   history, running, discovery>>

\* _run: self._running = True
worker_start ==
    /\ wpc = "start"
    /\ running' = TRUE
    /\ wpc' = "while"
    /\ UNCHANGED <<touches, position, touch_slot, pc, outcome, event, calls, nreads,
                   history, thread, cpc, discovery>>

\* _run: `while self._running:` either calls self.poll() or ends the thread
worker_while ==
    /\ wpc = "while"
    /\ IF running
       THEN /\ wpc' = "poll"
            /\ pc' = "check"
            /\ outcome' = "none"
            /\ event' = NoEvent
            /\ calls' = <<>>
       ELSE /\ wpc' = "done"
            /\ UNCHANGED <<pc, outcome, event, calls>>
    /\ UNCHANGED <<touches, position, touch_slot, nreads, history, thread, running, cpc,
                   discovery>>

\* poll: `if self._thread is not None and not self._running: return`
poll_check ==
    /\ pc = "check"
    /\ IF thread # "None" /\ ~running
       THEN pc' = "idle" /\ outcome' = "returned None"
       ELSE pc' = "polling" /\ outcome' = outcome
    /\ calls' = <<>>
    /\ UNCHANGED <<touches, position, touch_slot, event, nreads, history, control, discovery>>

\* _run: poll() returned; time.sleep(0.001) and back to the loop test
worker_sleep ==
    /\ wpc = "poll"
    /\ pc = "idle"
    /\ outcome \in {"returned", "returned None"}
    /\ wpc' = "while"
    /\ UNCHANGED <<touches, position, touch_slot, pc, outcome, event, calls, nreads,
                   history, thread, running, cpc, discovery>>

\* _run: poll() raised; nothing catches the exception and the thread terminates
worker_raise ==
    /\ wpc = "poll"
    /\ pc = "idle"
    /\ outcome \in {"struct.error", "IndexError"}
    /\ wpc' = "done"
    /\ UNCHANGED <<touches, position, touch_slot, pc, outcome, event, calls, nreads,
                   history, thread, running, cpc, discovery>>

\* the steps the worker takes without a record from the device
WorkerStep == worker_start \/ worker_while \/ poll_check \/ worker_sleep \/ worker_raise

NextThread ==
    \/ run
    \/ stop
    \/ join
    \/ worker_start
    \/ worker_while
    \/ poll_check
    \/ worker_sleep
    \/ worker_raise
    \/ poll
    \/ \E n \in {0} : unpack_error(n)
    \/ \E code \in {0} : sync(code)
    \/ \E v \in {-1, 5} : tracking_id(v)
    \/ \E v \in {100} : position_x(v)

SpecThread == Init /\ [][NextThread]_vars

(* ---- vocabulary of the properties ---- *)
\* the step is one read of the device
ReadStep == nreads' = nreads + 1
\* the step processes a whole record of the given type
RecordStep(type) == ReadStep /\ event'.len = EVENT_SIZE /\ event'.type = type
SynStep == RecordStep(EV_SYN)
AbsStep(code) == RecordStep(EV_ABS) /\ event'.code = code

FnName(e) ==
    CASE e = TS_MOVE -> "on_move" [] e = TS_PRESS -> "on_press" [] e = TS_RELEASE -> "on_release"
Registered(t, e) ==
    CASE e = TS_MOVE -> t.on_move [] e = TS_PRESS -> t.on_press [] e = TS_RELEASE -> t.on_release
\* Move, Press, Release
Rank(fn) == CASE fn = "on_move" -> 0 [] fn = "on_press" -> 1 [] fn = "on_release" -> 2

CallsOfSlot(cs, s) == SelectSeq(cs, LAMBDA c : c.slot = s)
Fns(cs) == [i \in DOMAIN cs |-> cs[i].fn]
NoDuplicates(seq) == \A i, j \in DOMAIN seq : i # j => seq[i] # seq[j]
Count(e, seq) == Cardinality({i \in DOMAIN seq : seq[i] = e})

\* the callbacks of the events of t that have a callable registered, in the order
\* of the pending-event sequence
PendingFns(t) ==
    LET reg == SelectSeq(t.events, LAMBDA e : Registered(t, e))
    IN  [i \in DOMAIN reg |-> FnName(reg[i])]

C2_CallbacksOnlyAtSyn ==
    [][ /\ calls' # <<>> => SynStep
        /\ (AbsStep(ABS_MT_TRACKING_ID) /\ IndexOk(touch_slot)) =>
               touches'[ListIndex(touch_slot)].id = event'.value
        /\ (AbsStep(ABS_MT_POSITION_X) /\ IndexOk(touch_slot)) =>
               touches'[ListIndex(touch_slot)].x = event'.value
        /\ (AbsStep(ABS_MT_POSITION_Y) /\ IndexOk(touch_slot)) =>
               touches'[ListIndex(touch_slot)].y = event'.value
        /\ SynStep =>
               \A i \in DOMAIN calls' :
                   LET c == calls'[i]
                       t == touches[c.slot]
                   IN  /\ c.id = t.id /\ c.x = t.x /\ c.y = t.y
                       /\ c.last_x = t.last_x /\ c.last_y = t.last_y
                       /\ touches'[c.slot].x = c.x /\ touches'[c.slot].y = c.y
                       /\ touches'[c.slot].id = c.id
      ]_vars

\* a SYN whose callback observed coordinates written by two records of the frame
C2_Witness ==
    /\ event.type = EV_SYN
    /\ \E i \in DOMAIN calls : calls[i].x = 150 /\ calls[i].y = 200 /\ calls[i].last_x = 100

(* ---- C3 ---- *)
\* C3: the pending events of every touch (and of the position) hold each of Press,
\* Release, Move at most once, so at most three; and at a SYN each callback fires
\* at most once per touch.
C3_EventsAtMostOnce ==
    /\ \A s \in Slots :
          /\ NoDuplicates(touches[s].events)
          /\ Len(touches[s].events) <= 3
          /\ \A i \in DOMAIN touches[s].events :
                touches[s].events[i] \in {TS_PRESS, TS_RELEASE, TS_MOVE}
          /\ NoDuplicates(Fns(CallsOfSlot(calls, s)))
    /\ NoDuplicates(position.events)

\* four writes to one slot in one frame (two of them to x), three events pending
C3_Witness ==
    \E s \in Slots :
        /\ Len(touches[s].events) = 3
        /\ Len(frame_writes[s]) = 4
        /\ Count("x", [i \in DOMAIN frame_writes[s] |-> frame_writes[s][i][1]]) = 2

(* ---- C4 ---- *)
\* C4: a SYN returns from poll() with the pending events of all ten slots empty,
\* having invoked the callback of every pending event that has a callable
\* registered and nothing for a pending event that has none.
C4_SynDispatchesAndClears ==
    [][SynStep =>
          /\ pc' = "idle" /\ outcome' = "returned"
          /\ \A s \in Slots :
                /\ touches'[s].events = <<>>
                /\ \A e \in {TS_PRESS, TS_RELEASE, TS_MOVE} :
                      (Pending(e, touches[s].events) /\ Registered(touches[s], e))
                      <=> (\E i \in DOMAIN calls' :
                              calls'[i].slot = s /\ calls'[i].fn = FnName(e))
      ]_vars

\* the first frame wrote an id and a coordinate to a slot whose on_press is not
\* registered: the SYN invoked on_move alone and cleared both events
C4_Witness ==
    /\ event.type = EV_SYN /\ nreads = 3 /\ outcome = "returned"
    /\ \E s \in Slots :
          /\ touches[s].id = 5 /\ ~touches[s].on_press
          /\ Fns(CallsOfSlot(calls, s)) = <<"on_move">>
          /\ touches[s].events = <<>>

(* ---- the writes of the current frame, replayed ---- *)
\* the value the attribute of slot s held just before the i-th write of the frame
AttrBefore(s, attr, i) ==
    LET w == frame_writes[s]
        prev == {j \in 1 .. (i - 1) : w[j][1] = attr}
    IN  IF prev = {} THEN frame_start[s][attr]
        ELSE w[CHOOSE j \in prev : \A k \in prev : k <= j][2]
\* the writes of the frame to slot s, among the given attributes, that wrote a
\* value other than the one held
Changes(s, attrs) ==
    {i \in DOMAIN frame_writes[s] :
        /\ frame_writes[s][i][1] \in attrs
        /\ frame_writes[s][i][2] # AttrBefore(s, frame_writes[s][i][1], i)}
WritesTo(s, attrs) == {i \in DOMAIN frame_writes[s] : frame_writes[s][i][1] \in attrs}
IdWrites(s) ==
    LET w == SelectSeq(frame_writes[s], LAMBDA r : r[1] = "id")
    IN  [i \in DOMAIN w |-> w[i][2]]

(* ---- C5 ---- *)
\* C5 (as claimed): a slot that received coordinate writes in the frame, and no
\* change of its tracking id, has exactly one Move pending.
C5_ExactlyOneMove ==
    \A s \in Slots :
        (WritesTo(s, {"x", "y"}) # {} /\ Changes(s, {"id"}) = {})
        => Count(TS_MOVE, touches[s].events) = 1

\* C5 (amended): a slot that received coordinate writes in the frame, and no change
\* of its tracking id, has exactly one Move pending (and nothing else) if at least
\* one of the writes wrote a value other than the one the coordinate held, however
\* many writes there were; it has nothing pending if every write repeated the
\* value held.
C5_OneMoveIffChanged ==
    \A s \in Slots :
        (WritesTo(s, {"x", "y"}) # {} /\ Changes(s, {"id"}) = {})
        => touches[s].events = IF Changes(s, {"x", "y"}) # {} THEN <<TS_MOVE>> ELSE <<>>

\* three coordinate writes to one slot in one frame, one Move pending
C5_Witness ==
    \E s \in Slots :
        /\ Cardinality(WritesTo(s, {"x", "y"})) >= 3
        /\ Cardinality(Changes(s, {"x", "y"})) >= 2
        /\ Changes(s, {"id"}) = {}
        /\ touches[s].events = <<TS_MOVE>>

(* ---- C6 ---- *)
\* the frame wrote to slot s, whose id was -1, the tracking ids v (not -1) and then -1
PressedAndReleased(s) ==
    /\ frame_start[s].id = -1
    /\ Len(IdWrites(s)) = 2
    /\ IdWrites(s)[1] # -1
    /\ IdWrites(s)[2] = -1

\* C6: a slot invalid at the start of a frame that writes to it a tracking id v
\* (not -1) and then -1 has Press and Release pending, in that order, and id -1; the
\* SYN invokes on_press and then on_release, once each, and leaves the touch
\* invalid with nothing pending.
C6_PressThenRelease ==
    /\ [](\A s \in Slots :
            PressedAndReleased(s) =>
                /\ SelectSeq(touches[s].events, LAMBDA e : e # TS_MOVE) = <<TS_PRESS, TS_RELEASE>>
                /\ touches[s].id = -1)
    /\ [][SynStep =>
            \A s \in Slots :
                (PressedAndReleased(s) /\ touches[s].on_press /\ touches[s].on_release) =>
                    /\ SelectSeq(Fns(CallsOfSlot(calls', s)), LAMBDA f : f # "on_move")
                          = <<"on_press", "on_release">>
                    /\ touches'[s].id = -1
                    /\ ~valid(touches'[s])
                    /\ touches'[s].events = <<>>
         ]_vars

\* the first frame pressed and released a slot: both callbacks fired at its SYN
C6_Witness ==
    /\ event.type = EV_SYN /\ nreads = 3
    /\ \E s \in Slots :
          /\ Fns(CallsOfSlot(calls, s)) = <<"on_press", "on_release">>
          /\ ~valid(touches[s])
          /\ touches[s].events = <<>>

(* ---- C7 ---- *)
\* C7: a tracking-id or multitouch coordinate record changes at most the touch the
\* cursor selects; an ABS_X / ABS_Y record changes at most the position; a record of
\* another type or code changes nothing; and at a SYN no callback fires for a slot
\* that received no write since the previous SYN.
C7_SlotIsolation ==
    [][ /\ (AbsStep(ABS_MT_TRACKING_ID) \/ AbsStep(ABS_MT_POSITION_X)
                \/ AbsStep(ABS_MT_POSITION_Y)) =>
              /\ position' = position /\ touch_slot' = touch_slot
              /\ \A s \in Slots :
                    (~IndexOk(touch_slot) \/ s # ListIndex(touch_slot))
                    => touches'[s] = touches[s]
        /\ (AbsStep(ABS_X) \/ AbsStep(ABS_Y)) =>
              touches' = touches /\ touch_slot' = touch_slot
        /\ (ReadStep /\ event'.len = EVENT_SIZE /\ event'.type # EV_SYN
              /\ (event'.type = EV_ABS =>
                     event'.code \notin {ABS_MT_SLOT, ABS_MT_TRACKING_ID, ABS_MT_POSITION_X,
                                         ABS_MT_POSITION_Y, ABS_X, ABS_Y})) =>
              touches' = touches /\ position' = position /\ touch_slot' = touch_slot
        /\ SynStep =>
              \A s \in Slots : frame_writes[s] = <<>> => CallsOfSlot(calls', s) = <<>>
      ]_vars

\* slot 2 was written while slot 0 and the position hold other data
C7_Witness ==
    /\ touches[2].id = 5 /\ touches[2].x = 0
    /\ touches[0].id = -1 /\ touches[0].x = 100
    /\ position.x = 100

(* ---- C8 ---- *)
\* C8: a frame whose only write to a slot is one x write that changes x from a to b
\* invokes, at its SYN, on_move once for the slot with x = b and last_x = a and no
\* other callback for it; a frame with only coordinate writes to a slot invokes
\* neither on_press nor on_release for it; and every coordinate write leaves in
\* last_x (last_y) the value x (y) held before it.
C8_MoveOnly ==
    [][ /\ SynStep =>
              \A s \in Slots :
                  /\ (/\ Len(frame_writes[s]) = 1
                      /\ frame_writes[s][1][1] = "x"
                      /\ frame_writes[s][1][2] # frame_start[s].x
                      /\ touches[s].on_move) =>
                         /\ Len(CallsOfSlot(calls', s)) = 1
                         /\ CallsOfSlot(calls', s)[1].fn = "on_move"
                         /\ CallsOfSlot(calls', s)[1].x = frame_writes[s][1][2]
                         /\ CallsOfSlot(calls', s)[1].last_x = frame_start[s].x
                  /\ (frame_writes[s] # <<>> /\ WritesTo(s, {"id"}) = {}) =>
                         \A i \in DOMAIN calls' :
                             calls'[i].slot = s => calls'[i].fn = "on_move"
        /\ (AbsStep(ABS_MT_POSITION_X) /\ IndexOk(touch_slot)) =>
              touches'[ListIndex(touch_slot)].last_x = touches[ListIndex(touch_slot)].x
        /\ (AbsStep(ABS_MT_POSITION_Y) /\ IndexOk(touch_slot)) =>
              touches'[ListIndex(touch_slot)].last_y = touches[ListIndex(touch_slot)].y
      ]_vars

\* the first frame is one x write, 0 -> 150, to a slot with every callback
\* registered: on_move alone fired, with x = 150 and last_x = 0
C8_Witness ==
    /\ event.type = EV_SYN /\ nreads = 2
    /\ Len(calls) = 1
    /\ calls[1].fn = "on_move" /\ calls[1].x = 150 /\ calls[1].last_x = 0
    /\ touches[calls[1].slot].on_press /\ touches[calls[1].slot].on_release

(* ---- C9 ---- *)
\* C9 (as claimed): the cursor never holds a value outside 0..9, and an IndexError
\* is raised by the MT_SLOT record that selects the slot, not by a later record.
C9_SlotSelectChecked ==
    /\ touch_slot \in Slots
    /\ outcome = "IndexError" => event.code = ABS_MT_SLOT

(* ---- C10 ---- *)
\* C10: a read that returns a truncated (short, non-empty) record makes poll()
\* raise; the cursor, every touch and the position are as before the read and no
\* callback is invoked.
C10_ShortReadRaises ==
    [][(ReadStep /\ event'.len = ShortLen) =>
          /\ pc' = "idle" /\ outcome' = "struct.error"
          /\ touches' = touches /\ position' = position /\ touch_slot' = touch_slot
          /\ calls' = <<>>
      ]_vars

\* a truncated record arrived in the middle of a frame, with events pending on a
\* touch that has its callbacks registered
C10_Witness ==
    /\ event.len = ShortLen /\ outcome = "struct.error"
    /\ \E s \in Slots :
          /\ Len(touches[s].events) >= 2
          /\ touches[s].on_press /\ touches[s].on_move
    /\ touch_slot # 0

(* ---- C11 ---- *)
\* C11 (as claimed): a read at end of stream (zero bytes) ends poll() with an outcome
\* of its own, which is not the exception a malformed record raises.
C11_EofDistinct ==
    event.len = 0 => outcome \notin {"none", "returned", "struct.error"}

(* ---- C15 ---- *)
\* C15: a tracking-id write of v to the touch with id c appends nothing if v = c,
\* Release unless already pending if v # c and v = -1, Press unless already pending
\* if v # c and v # -1; afterwards the id is v and x, y, last_x, last_y are as
\* before.
C15_IdWrite ==
    [][(AbsStep(ABS_MT_TRACKING_ID) /\ IndexOk(touch_slot)) =>
          LET t == touches[ListIndex(touch_slot)]
              u == touches'[ListIndex(touch_slot)]
              v == event'.value
          IN  /\ u.id = v
              /\ u.x = t.x /\ u.y = t.y /\ u.last_x = t.last_x /\ u.last_y = t.last_y
              /\ v = t.id => u.events = t.events
              /\ (v # t.id /\ v = -1) =>
                    u.events = IF Pending(TS_RELEASE, t.events) THEN t.events
                               ELSE Append(t.events, TS_RELEASE)
              /\ (v # t.id /\ v # -1) =>
                    u.events = IF Pending(TS_PRESS, t.events) THEN t.events
                               ELSE Append(t.events, TS_PRESS)
      ]_vars

\* a contact replaced without a release: the slot held id 5 at the last SYN and the
\* frame wrote id 7 to it, which made Press pending
C15_Witness ==
    \E s \in Slots :
        /\ frame_start[s].id = 5
        /\ IdWrites(s) = <<7>>
        /\ touches[s].id = 7
        /\ touches[s].events = <<TS_PRESS>>

(* ---- C16 ---- *)
\* C16: the cursor is 0 at construction; an MT_SLOT record sets it to the record's
\* value and changes nothing else; every other step, an EV_SYN included, leaves it
\* as it is.
C16_CursorFollowsSlotRecords ==
    /\ touch_slot = 0
    /\ [][IF AbsStep(ABS_MT_SLOT)
          THEN /\ touch_slot' = event'.value
               /\ touches' = touches /\ position' = position /\ calls' = <<>>
          ELSE touch_slot' = touch_slot
        ]_vars

\* slot 2 was selected and written, a SYN passed, and slot 2 is selected again
C16_Witness ==
    /\ event.len = EVENT_SIZE /\ event.type = EV_ABS /\ event.code = ABS_MT_SLOT
    /\ event.value = 2 /\ touch_slot = 2
    /\ frame_start[2].id = 5 /\ touches[2].id = 5
    /\ frame_start = touches

(* ---- C17 ---- *)
\* C17: in every state a touch with Release pending and an id other than -1 has
\* Press pending, so a tracking-id write of -1 never makes Press pending.
C17_ReleaseNeverAppendsPress ==
    /\ [](/\ \A s \in Slots :
               (Pending(TS_RELEASE, touches[s].events) /\ touches[s].id # -1)
               => Pending(TS_PRESS, touches[s].events)
          /\ ~Pending(TS_RELEASE, position.events))
    /\ [][(AbsStep(ABS_MT_TRACKING_ID) /\ event'.value = -1 /\ IndexOk(touch_slot)) =>
             (Pending(TS_PRESS, touches'[ListIndex(touch_slot)].events)
              => Pending(TS_PRESS, touches[ListIndex(touch_slot)].events))
         ]_vars

\* the branch after the failed `value == -1 and not TS_RELEASE in self.events` was
\* taken by a write of -1: the frame wrote 5, -1, 7, -1 to one slot
C17_Witness ==
    /\ event.code = ABS_MT_TRACKING_ID /\ event.value = -1
    /\ \E s \in Slots :
          /\ IdWrites(s) = <<5, -1, 7, -1>>
          /\ touches[s].events = <<TS_PRESS, TS_RELEASE>>

(* ---- C18 ---- *)
\* C18 (as claimed): after a SYN, a slot that has on_press and on_release registered
\* and had one of them invoked is valid exactly if the last of these invocations
\* was on_press.
C18_LifecycleConsistent ==
    (event.len = EVENT_SIZE /\ event.type = EV_SYN) =>
        \A s \in Slots :
            LET pr == SelectSeq(Fns(CallsOfSlot(calls, s)), LAMBDA f : f # "on_move")
            IN  (touches[s].on_press /\ touches[s].on_release /\ pr # <<>>)
                => (valid(touches[s]) <=> pr[Len(pr)] = "on_press")

(* ---- C20 ---- *)
\* the number of callbacks the pending events of slots s..9 call for
RECURSIVE PendingCount(_)
PendingCount(s) ==
    IF s >= NumSlots THEN 0 ELSE Len(PendingFns(touches[s])) + PendingCount(s + 1)

\* C20: the position is never valid (its id stays -1) and never has anything but
\* Move pending; a SYN leaves the position as it is and invokes as many callbacks as
\* the pending events of the ten touches call for, none for the position; and a Move
\* pending on the position stays pending for ever.
C20_PositionOutsideDispatch ==
    /\ [](/\ position.id = -1 /\ ~valid(position)
          /\ position.events \in {<<>>, <<TS_MOVE>>})
    /\ [][ /\ SynStep => (position' = position /\ Len(calls') = PendingCount(0))
           /\ Pending(TS_MOVE, position.events) => Pending(TS_MOVE, position'.events)
         ]_vars

\* a SYN that invoked a touch's callback while the position, with on_move
\* registered, keeps its Move pending
C20_Witness ==
    /\ event.len = EVENT_SIZE /\ event.type = EV_SYN
    /\ position.on_move /\ position.events = <<TS_MOVE>> /\ position.x = 100
    /\ Len(calls) = 1 /\ calls[1].fn = "on_press"

(* ---- C12 ---- *)
\* C12 (as claimed): while stop() waits, with the running flag clear, for a worker
\* that has not terminated, the worker can take a step towards its end without a
\* record from the device.
C12_StopNeedsNoRecord ==
    (cpc = "join" /\ ~running /\ wpc # "done") => ENABLED WorkerStep

(* ---- C13 ---- *)
\* C13 (as claimed): for an enumeration whose name files are all readable or
\* missing, the resolution yields the path of a device named as the touchscreen if
\* there is one, and fails with RuntimeError (DeviceNotFound) if and only if there
\* is none.
C13_DeviceResolution ==
    (device_path # Unresolved /\ \A i \in DOMAIN devices : devices[i] # "EACCES") =>
        IF \E i \in DOMAIN devices : devices[i] = "FT5406 memory based driver"
        THEN /\ device_path.result = "path"
             /\ devices[device_path.index] = "FT5406 memory based driver"
        ELSE device_path = Raised("RuntimeError")

(* ---- C14 ---- *)
\* poll() returns in this step (as opposed to raising)
PollReturns == pc # "idle" /\ pc' = "idle" /\ outcome' \in {"returned", "returned None"}

\* C14 (as claimed): whenever poll() has returned, the last thing it did was to
\* process an EV_SYN record.
C14_ReturnsOnlyAfterSyn ==
    (pc = "idle" /\ outcome \in {"returned", "returned None"})
    => (event.len = EVENT_SIZE /\ event.type = EV_SYN)

\* C14 (amended): an EV_SYN record always makes poll() return self.touches, in the
\* step that processes it; a direct call of poll() returns in no other way; in the
\* worker thread poll() also returns None, without reading, when the test at the
\* top of its loop finds the running flag cleared.
C14_ReturnsAfterSynOrStop ==
    [][ /\ SynStep => (pc' = "idle" /\ outcome' = "returned")
        /\ PollReturns =>
              \/ SynStep /\ outcome' = "returned"
              \/ /\ outcome' = "returned None"
                 /\ wpc = "poll" /\ thread # "None" /\ ~running
                 /\ pc = "check"
                 /\ nreads' = nreads
                 /\ touches' = touches /\ position' = position /\ touch_slot' = touch_slot
                 /\ calls' = <<>>
      ]_vars

\* the worker's poll() returned None in the middle of a frame: the record before
\* was a tracking-id write, whose Press is still pending
C14_Witness ==
    /\ pc = "idle" /\ outcome = "returned None" /\ wpc = "poll"
    /\ event.len = EVENT_SIZE /\ event.code = ABS_MT_TRACKING_ID
    /\ \E s \in Slots : touches[s].events = <<TS_PRESS>>

(* ---- C19 ---- *)
\* C19 (as claimed): once stop() has cleared the running flag and waits for the
\* worker, the flag is clear while the worker lives, so the worker's loop ends.
C19_StopEndsWorker ==
    (cpc = "join" /\ wpc # "done") => ~running
=============================================================================
